---- MODULE Spec2Model ----
(***************************************************************************)
(* Model of train.py: the run orchestrator (run), the training loop        *)
(* (train_sam), the validation loop (validate) and the learning-rate       *)
(* schedule (configure_opt.lr_lambda), replicated over the processes that  *)
(* fabric.launch() starts.  Real numbers (losses, scores, multipliers) are *)
(* exact rationals <<numerator, denominator>> in lowest terms with a       *)
(* positive denominator.                                                   *)
(***************************************************************************)
EXTENDS Integers, Sequences, FiniteSets, TLC

VARIABLES cfg, data, procs, writes, out_dir, probe

vars == <<cfg, data, procs, writes, out_dir, probe>>

(***************************************************************************)
(* Bounds of the model.                                                    *)
(***************************************************************************)
MaxEpochs == 4
MaxDevices == 2
MaxStep == 3
MaxUpdates == 3

(***************************************************************************)
(* Rational arithmetic.                                                    *)
(***************************************************************************)
Abs(n) == IF n < 0 THEN -n ELSE n

RECURSIVE GCD(_, _)
GCD(a, b) == IF b = 0 THEN a ELSE GCD(b, a % b)

Rat(n, d) ==
    LET s == IF d < 0 THEN -1 ELSE 1
        g == GCD(Abs(n), Abs(d))
    IN  IF n = 0 THEN <<0, 1>> ELSE <<(s * n) \div g, (s * d) \div g>>

Zero == <<0, 1>>
One == <<1, 1>>
RInt(n) == <<n, 1>>
RAdd(a, b) == Rat(a[1] * b[2] + b[1] * a[2], a[2] * b[2])
RMul(a, b) == Rat(a[1] * b[1], a[2] * b[2])
RDiv(a, b) == Rat(a[1] * b[2], a[2] * b[1])
RLess(a, b) == a[1] * b[2] < b[1] * a[2]

RECURSIVE RSum(_)
RSum(s) == IF s = <<>> THEN Zero ELSE RAdd(s[1], RSum(Tail(s)))

RMax(a, b) == IF RLess(a, b) THEN b ELSE a

RECURSIVE RMaxSeq(_)
RMaxSeq(s) == IF s = <<>> THEN Zero ELSE RMax(s[1], RMaxSeq(Tail(s)))

(***************************************************************************)
(* Format of a score in a checkpoint file name, f"{score:.2f}": the score  *)
(* in hundredths.  What is formatted is the binary floating-point number   *)
(* that holds the score, with bits significant bits (24 for a float32      *)
(* tensor, 53 for a Python float): the score is first rounded to the       *)
(* nearest float (ties to the even significand), and the float's exact     *)
(* value is then rounded to the nearest hundredth (ties to even).          *)
(*                                                                         *)
(* A float is kept as the exponent of its leading bit and its significand, *)
(* a sequence of bits, most significant first, produced by long division;  *)
(* cmp is the sign of float - value.  The float of a score falls on the    *)
(* other side of the half-way point between two hundredths than the score  *)
(* itself exactly when the score and the half-way point round to the same  *)
(* float.                                                                  *)
(***************************************************************************)
ScoreBits == {24, 53}

TensorScoreBits == {24}

RECURSIVE BitLength(_)
BitLength(n) == IF n = 0 THEN 0 ELSE 1 + BitLength(n \div 2)

RECURSIVE BitsOf(_)
BitsOf(n) == IF n = 0 THEN <<>> ELSE Append(BitsOf(n \div 2), n % 2)

RECURSIVE Increment(_)
Increment(sig) ==
    IF sig = <<>> THEN <<>>
    ELSE IF sig[Len(sig)] = 0 THEN [sig EXCEPT ![Len(sig)] = 1]
    ELSE Append(Increment(SubSeq(sig, 1, Len(sig) - 1)), 0)

RoundFloat(e, sig, r, d) ==
    LET b == (2 * r) \div d
        rest == (2 * r) % d
        up == b = 1 /\ (rest > 0 \/ sig[Len(sig)] = 1)
        carry == \A i \in DOMAIN sig : sig[i] = 1
    IN  IF ~up THEN [exp |-> e, sig |-> sig, cmp |-> IF b = 0 /\ rest = 0 THEN 0 ELSE 0 - 1]
        ELSE IF carry THEN [exp |-> e + 1, sig |-> [i \in DOMAIN sig |-> IF i = 1 THEN 1 ELSE 0],
                            cmp |-> 1]
        ELSE [exp |-> e, sig |-> Increment(sig), cmp |-> 1]

RECURSIVE Significand(_, _, _, _, _)
Significand(e, sig, r, d, bits) ==
    IF Len(sig) = bits THEN RoundFloat(e, sig, r, d)
    ELSE LET b == (2 * r) \div d
         IN  IF sig = <<>> /\ b = 0 THEN Significand(e - 1, sig, (2 * r) % d, d, bits)
             ELSE Significand(e, Append(sig, b), (2 * r) % d, d, bits)

(* The float nearest to n/d, n > 0. *)
Float(n, d, bits) ==
    Significand(IF n < d THEN 0 - 1 ELSE BitLength(n \div d) - 1, BitsOf(n \div d), n % d, d, bits)

Fmt2(r, bits) ==
    LET n == Abs(r[1])
        d == r[2]
        q == (n * 100) \div d
        m == (n * 100) % d
        score == Float(n, d, bits)
        half == Float(2 * q + 1, 200, bits)
        hundredths ==
            IF n = 0 THEN 0
            ELSE IF score.exp # half.exp \/ score.sig # half.sig
                 THEN (IF 2 * m < d THEN q ELSE q + 1)
            ELSE IF half.cmp = 0 THEN (IF q % 2 = 0 THEN q ELSE q + 1)
            ELSE IF half.cmp = 1 THEN q + 1 ELSE q
    IN  IF r[1] < 0 THEN 0 - hundredths ELSE hundredths

(***************************************************************************)
(* utils.AverageMeter, the running-statistics tracker.                     *)
(***************************************************************************)
AverageMeter == [val |-> Zero, avg |-> Zero, sum |-> Zero, count |-> 0]

MeterUpdateUnweighted(m, value, n) ==
    LET s == RAdd(m.sum, value)
        c == m.count + n
    IN  [val |-> value, sum |-> s, count |-> c, avg |-> RDiv(s, RInt(c))]

MeterUpdate(m, value, n) ==
    LET s == RAdd(m.sum, RMul(value, RInt(n)))
        c == m.count + n
    IN  [val |-> value, sum |-> s, count |-> c, avg |-> RDiv(s, RInt(c))]

(***************************************************************************)
(* smp.metrics.iou_score / f1_score with reduction "micro-imagewise" on    *)
(* the stats of one image: an image is the sequence of its masks'          *)
(* confusion counts, the score of a mask is computed from its own counts   *)
(* (0/0 is replaced by 1, the library's zero_division) and the image's     *)
(* score is the mean over its masks.                                       *)
(***************************************************************************)
Stat(tp, fp, fn) == [tp |-> tp, fp |-> fp, fn |-> fn]

SafeDiv(n, d) == IF d = 0 THEN One ELSE Rat(n, d)

Mean(s) == RDiv(RSum(s), RInt(Len(s)))

iou_score(image) ==
    Mean([i \in 1..Len(image) |->
            SafeDiv(image[i].tp, image[i].tp + image[i].fp + image[i].fn)])

f1_score(image) ==
    Mean([i \in 1..Len(image) |->
            SafeDiv(2 * image[i].tp, 2 * image[i].tp + image[i].fp + image[i].fn)])

(***************************************************************************)
(* configure_opt: the schedule function and the LambdaLR scheduler built   *)
(* on it (last_epoch starts at 0; step() increments it and re-evaluates    *)
(* the multiplier).                                                        *)
(***************************************************************************)
lr_lambda_late_decay(opt, step) ==
    IF step < opt.warmup_steps THEN Rat(step, opt.warmup_steps)
    ELSE IF step <= opt.steps[1] THEN One
    ELSE IF step < opt.steps[2] THEN Rat(1, opt.decay_factor)
    ELSE Rat(1, opt.decay_factor * opt.decay_factor)

lr_lambda(opt, step) ==
    IF step < opt.warmup_steps THEN Rat(step, opt.warmup_steps)
    ELSE IF step < opt.steps[1] THEN One
    ELSE IF step < opt.steps[2] THEN Rat(1, opt.decay_factor)
    ELSE Rat(1, opt.decay_factor * opt.decay_factor)

LambdaLR(opt) == [last_epoch |-> 0, factor |-> lr_lambda(opt, 0)]

scheduler_step(opt, sch) ==
    [last_epoch |-> sch.last_epoch + 1, factor |-> lr_lambda(opt, sch.last_epoch + 1)]

(***************************************************************************)
(* Inputs: configurations, data loaders (a loader is the sequence of its   *)
(* batches' image counts) and the outcomes a forward pass can have: the   *)
(* three loss terms of a training batch, the masks' confusion counts of a  *)
(* validation image.  score_bits is the width of the significand of the    *)
(* floating-point numbers that hold the scores: the metrics are float32    *)
(* tensors unless the default floating-point type is widened.              *)
(***************************************************************************)
Opt(w, a, b, d) == [warmup_steps |-> w, steps |-> <<a, b>>, decay_factor |-> d]

Decays == {-2, 1, 2, 10}

AllOpts ==
    {Opt(w, a, b, d) : w \in 0..MaxStep, a \in 0..MaxStep, b \in 0..MaxStep, d \in Decays}

AscendingOpts == {o \in AllOpts : o.steps[1] < o.steps[2]}

RunOpts == {Opt(1, 2, 3, 10)}

TrainLoaders == {<<>>, <<2>>, <<2, 1>>}

ValLoaders == {<<>>, <<1>>, <<2>>}

Loss(f, d, i) == [focal |-> f, dice |-> d, iou |-> i]

LossOutcomes == {Loss(0, 0, 0), Loss(1, 0, 2), Loss(2, 1, 1)}

Perfect == <<Stat(4, 0, 0)>>
Disjoint == <<Stat(0, 2, 2)>>
Partial == <<Stat(2, 0, 0), Stat(2, 2, 0)>>

ImageOutcomes == {Perfect, Disjoint, Partial}

Procs == 0..(cfg.num_devices - 1)

(***************************************************************************)
(* The state of one process.  Its history is recorded in scores (the       *)
(* values validate returned to train_sam, in order), trace (its events, in *)
(* order), fwd (the kind of each forward pass with the mode the model was  *)
(* in), lr_used (the epoch of each optimizer step with the multiplier in   *)
(* force) and saved (the names of the files it wrote, in order); inside a  *)
(* validate call, in f1s, iou_values and weights (the tracker updates made)*)
(* and seen (the parameter states the forward passes ran on).              *)
(***************************************************************************)
NoLoss == [focal |-> 0, dice |-> 0, iou |-> 0, total |-> 0]

LossMeters ==
    [focal |-> AverageMeter, dice |-> AverageMeter,
     iou |-> AverageMeter, total |-> AverageMeter]

NoValidate ==
    [epoch |-> 0, n |-> 0, ious |-> AverageMeter, f1_scores |-> AverageMeter,
     ret |-> "none", f1s |-> <<>>, iou_values |-> <<>>, weights |-> <<>>, seen |-> {}]

ProcInit ==
    [pc |-> "run", epoch |-> 0, batch_iter |-> 0, best_score |-> Zero,
     score |-> Zero, loss |-> NoLoss, meters |-> LossMeters, val |-> NoValidate,
     training |-> TRUE, params |-> 0, scheduler |-> [last_epoch |-> 0, factor |-> Zero],
     scores |-> <<>>, trace |-> <<>>, fwd |-> {}, lr_used |-> {}, saved |-> <<>>]

NoProbe == [kind |-> "none"]

Init ==
    /\ cfg \in [num_epochs : 0..MaxEpochs, num_devices : {1}, opt : RunOpts]
    /\ data \in [train : TrainLoaders, val : ValLoaders,
                 loss : {LossOutcomes}, images : {ImageOutcomes},
                 score_bits : TensorScoreBits]
    /\ procs = [p \in Procs |-> ProcInit]
    /\ writes = {}
    /\ out_dir = {}
    /\ probe = NoProbe

InitDist ==
    /\ cfg \in [num_epochs : {0, 2}, num_devices : 2..MaxDevices, opt : RunOpts]
    /\ data \in [train : {<<>>, <<1>>}, val : {<<1>>, <<1, 1>>},
                 loss : {{Loss(1, 0, 2)}}, images : {{Perfect, Disjoint}},
                 score_bits : TensorScoreBits]
    /\ procs = [p \in Procs |-> ProcInit]
    /\ writes = {}
    /\ out_dir = {}
    /\ probe = NoProbe

Set(p, r) == procs' = [procs EXCEPT ![p] = r]

Event(tag, label, n) == <<tag, label, n>>

(***************************************************************************)
(* run, lines 152-175: launch, seed, directory creation by rank 0, model,  *)
(* loaders, optimizer and scheduler; then train_sam is entered             *)
(* (lines 73-75).                                                          *)
(***************************************************************************)
RunSetup(p) ==
    /\ procs[p].pc = "run"
    /\ out_dir' = IF p = 0 THEN out_dir \cup {p} ELSE out_dir
    /\ Set(p, [procs[p] EXCEPT !.pc = "epoch_head",
                               !.training = TRUE,
                               !.scheduler = LambdaLR(cfg.opt),
                               !.best_score = Zero])
    /\ UNCHANGED <<cfg, data, writes, probe>>

(***************************************************************************)
(* validate, lines 27-32: evaluation mode, fresh trackers.                 *)
(***************************************************************************)
ValidateEntryNoEval(pr, epoch, ret) ==
    [pr EXCEPT !.pc = "val_loop",
               !.val = [NoValidate EXCEPT !.epoch = epoch, !.ret = ret],
               !.trace = Append(@, Event("validate", epoch, 0))]

ValidateEntry(pr, epoch, ret) ==
    [pr EXCEPT !.pc = "val_loop",
               !.training = FALSE,
               !.val = [NoValidate EXCEPT !.epoch = epoch, !.ret = ret],
               !.trace = Append(@, Event("validate", epoch, 0))]

(***************************************************************************)
(* train_sam, line 77 (and 78-87): the next epoch of range(1, num_epochs)  *)
(* with fresh trackers, or the end of train_sam and, back in run, the      *)
(* final validate call of line 176.  InRange is the test of the range.     *)
(***************************************************************************)
InRangeInclusive(epoch, num_epochs) == epoch <= num_epochs

InRange(epoch, num_epochs) == epoch < num_epochs

EpochHeadFinalLabel(p) ==
    /\ procs[p].pc = "epoch_head"
    /\ IF InRange(procs[p].epoch + 1, cfg.num_epochs)
       THEN Set(p, [procs[p] EXCEPT !.pc = "batch_head",
                                    !.epoch = @ + 1,
                                    !.batch_iter = 0,
                                    !.meters = LossMeters,
                                    !.trace = Append(@, Event("epoch", procs[p].epoch + 1, 0))])
       ELSE Set(p, ValidateEntry([procs[p] EXCEPT !.meters = LossMeters, !.loss = NoLoss],
                                 procs[p].epoch, "run"))
    /\ UNCHANGED <<cfg, data, writes, out_dir, probe>>

EpochHead(p) ==
    /\ procs[p].pc = "epoch_head"
    /\ IF InRange(procs[p].epoch + 1, cfg.num_epochs)
       THEN Set(p, [procs[p] EXCEPT !.pc = "batch_head",
                                    !.epoch = @ + 1,
                                    !.batch_iter = 0,
                                    !.meters = LossMeters,
                                    !.trace = Append(@, Event("epoch", procs[p].epoch + 1, 0))])
       ELSE Set(p, ValidateEntry([procs[p] EXCEPT !.meters = LossMeters, !.loss = NoLoss],
                                 0, "run"))
    /\ UNCHANGED <<cfg, data, writes, out_dir, probe>>

(***************************************************************************)
(* train_sam, line 89: the loop over the loader has no batch left.         *)
(***************************************************************************)
ExhaustedEarly(batch_iter, loader) == batch_iter >= Len(loader) - 1

Exhausted(batch_iter, loader) == batch_iter = Len(loader)

(***************************************************************************)
(* train_sam, lines 89-105: the next batch, its forward pass and losses.   *)
(***************************************************************************)
TrainForward(p) ==
    /\ procs[p].pc = "batch_head"
    /\ ~Exhausted(procs[p].batch_iter, data.train)
    /\ \E l \in data.loss :
         Set(p, [procs[p] EXCEPT !.pc = "backward",
                                 !.loss = [focal |-> l.focal, dice |-> l.dice, iou |-> l.iou,
                                           total |-> l.focal + l.dice + l.iou],
                                 !.fwd = @ \cup {<<"train", procs[p].training>>},
                                 !.trace = Append(@, Event("batch", procs[p].epoch,
                                                           procs[p].batch_iter + 1))])
    /\ UNCHANGED <<cfg, data, writes, out_dir, probe>>

(***************************************************************************)
(* train_sam, lines 107-120: zero_grad, backward, optimizer.step, then the *)
(* loss trackers, each updated with the batch's image count as weight.     *)
(***************************************************************************)
TrainStepSched(p) ==
    LET pr == procs[p]
        batch_size == data.train[pr.batch_iter + 1]
        m == pr.meters
    IN  /\ pr.pc = "backward"
        /\ Set(p, [pr EXCEPT !.pc = "batch_head",
                             !.params = @ + 1,
                             !.lr_used = @ \cup {<<pr.epoch, pr.scheduler.factor>>},
                             !.scheduler = scheduler_step(cfg.opt, @),
                             !.batch_iter = @ + 1,
                             !.meters =
                                 [focal |-> MeterUpdate(m.focal, RInt(pr.loss.focal), batch_size),
                                  dice |-> MeterUpdate(m.dice, RInt(pr.loss.dice), batch_size),
                                  iou |-> MeterUpdate(m.iou, RInt(pr.loss.iou), batch_size),
                                  total |-> MeterUpdate(m.total, RInt(pr.loss.total), batch_size)],
                             !.trace = Append(@, Event("optimizer", pr.epoch,
                                                       pr.batch_iter + 1))])
        /\ UNCHANGED <<cfg, data, writes, out_dir, probe>>

TrainStep(p) ==
    LET pr == procs[p]
        batch_size == data.train[pr.batch_iter + 1]
        m == pr.meters
    IN  /\ pr.pc = "backward"
        /\ Set(p, [pr EXCEPT !.pc = "batch_head",
                             !.params = @ + 1,
                             !.lr_used = @ \cup {<<pr.epoch, pr.scheduler.factor>>},
                             !.batch_iter = @ + 1,
                             !.meters =
                                 [focal |-> MeterUpdate(m.focal, RInt(pr.loss.focal), batch_size),
                                  dice |-> MeterUpdate(m.dice, RInt(pr.loss.dice), batch_size),
                                  iou |-> MeterUpdate(m.iou, RInt(pr.loss.iou), batch_size),
                                  total |-> MeterUpdate(m.total, RInt(pr.loss.total), batch_size)],
                             !.trace = Append(@, Event("optimizer", pr.epoch,
                                                       pr.batch_iter + 1))])
        /\ UNCHANGED <<cfg, data, writes, out_dir, probe>>

(***************************************************************************)
(* train_sam, lines 122-124: after the last batch, the epoch summary and   *)
(* the call of validate with the epoch's number.                           *)
(***************************************************************************)
TrainEpochEnd(p) ==
    /\ procs[p].pc = "batch_head"
    /\ Exhausted(procs[p].batch_iter, data.train)
    /\ Set(p, ValidateEntry(procs[p], procs[p].epoch, "train_sam"))
    /\ UNCHANGED <<cfg, data, writes, out_dir, probe>>

(***************************************************************************)
(* validate, lines 38-48: every image of the batch updates both trackers,  *)
(* weighted by the batch's image count.                                    *)
(***************************************************************************)
RECURSIVE UpdateAllUnit(_, _, _)
UpdateAllUnit(m, values, n) ==
    IF values = <<>> THEN m
    ELSE UpdateAllUnit(MeterUpdate(m, values[1], 1), Tail(values), n)

RECURSIVE UpdateAll(_, _, _)
UpdateAll(m, values, n) ==
    IF values = <<>> THEN m
    ELSE UpdateAll(MeterUpdate(m, values[1], n), Tail(values), n)

(***************************************************************************)
(* validate, lines 34-50: one batch of the validation loader.              *)
(***************************************************************************)
ValidateBatch(p) ==
    LET pr == procs[p]
        num_images == data.val[pr.val.n + 1]
    IN  /\ pr.pc = "val_loop"
        /\ pr.val.n < Len(data.val)
        /\ \E images \in [1..num_images -> data.images] :
             Set(p, [pr EXCEPT
                 !.val.n = @ + 1,
                 !.fwd = @ \cup {<<"validate", pr.training>>},
                 !.val.seen = @ \cup {pr.params},
                 !.val.f1s = @ \o [i \in 1..num_images |-> f1_score(images[i])],
                 !.val.iou_values = @ \o [i \in 1..num_images |-> iou_score(images[i])],
                 !.val.weights = @ \o [i \in 1..num_images |-> num_images],
                 !.trace = Append(@, Event("val_batch", pr.val.epoch, pr.val.n + 1)),
                 !.val.ious =
                     UpdateAll(@, [i \in 1..num_images |-> iou_score(images[i])], num_images),
                 !.val.f1_scores =
                     UpdateAll(@, [i \in 1..num_images |-> f1_score(images[i])], num_images)])
        /\ UNCHANGED <<cfg, data, writes, out_dir, probe>>

(***************************************************************************)
(* validate, line 56: the periodic checkpoint is written by global rank 0. *)
(***************************************************************************)
AnyRank(p) == p >= 0

IsCoordinator(p) == p = 0

File(p, kind, epoch, score, state) ==
    [rank |-> p, kind |-> kind, epoch |-> epoch, f1 |-> Fmt2(score, data.score_bits),
     score |-> score, state |-> state]

(***************************************************************************)
(* The name of a checkpoint file: line 57,                                 *)
(* f"epoch-{epoch:06d}-f1{f1_scores.avg:.2f}-ckpt.pth", and line 128,      *)
(* f"best-epoch-{epoch}-f1{score:.2f}.pth".                                *)
(***************************************************************************)
FileName(kind, epoch, score) == <<kind, epoch, Fmt2(score, data.score_bits)>>

(***************************************************************************)
(* validate, lines 52-59: after the loop, the summary, the periodic        *)
(* checkpoint, training mode again, and the mean F1 is returned: to        *)
(* train_sam (line 124), or to run, which ends.                            *)
(***************************************************************************)
ValidateFinish(p) ==
    LET pr == procs[p]
        avg == pr.val.f1_scores.avg
    IN  /\ pr.pc = "val_loop"
        /\ pr.val.n = Len(data.val)
        /\ writes' = IF IsCoordinator(p)
                     THEN writes \cup {File(p, "epoch", pr.val.epoch, avg, pr.params)}
                     ELSE writes
        /\ Set(p, [pr EXCEPT
               !.pc = IF pr.val.ret = "train_sam" THEN "compare" ELSE "done",
               !.score = IF pr.val.ret = "train_sam" THEN avg ELSE @,
               !.scores = IF pr.val.ret = "train_sam" THEN Append(@, avg) ELSE @,
               !.training = TRUE,
               !.val = NoValidate,
               !.saved = IF IsCoordinator(p)
                         THEN Append(@, FileName("epoch", pr.val.epoch, avg)) ELSE @,
               !.trace = @ \o (IF IsCoordinator(p)
                               THEN <<Event("periodic", pr.val.epoch, 0)>> ELSE <<>>)
                           \o <<Event("validated", pr.val.epoch, 0)>>])
        /\ UNCHANGED <<cfg, data, out_dir, probe>>

(***************************************************************************)
(* train_sam, line 125: the comparison that gates the best checkpoint.     *)
(***************************************************************************)
ImprovedOrEqual(score, best_score) == ~RLess(score, best_score)

AlwaysImproved(score, best_score) == score = score

Improved(score, best_score) == RLess(best_score, score)

(***************************************************************************)
(* train_sam, lines 125-128: a strictly better score becomes best_score    *)
(* and the best checkpoint is written, by whichever process runs this.     *)
(***************************************************************************)
BestCheck(p) ==
    LET pr == procs[p]
    IN  /\ pr.pc = "compare"
        /\ IF Improved(pr.score, pr.best_score)
           THEN /\ writes' = writes \cup {File(p, "best", pr.epoch, pr.score, pr.params)}
                /\ Set(p, [pr EXCEPT !.pc = "sched",
                                     !.best_score = pr.score,
                                     !.saved = Append(@, FileName("best", pr.epoch, pr.score)),
                                     !.trace = @ \o <<Event("compare", pr.epoch, 0),
                                                       Event("best", pr.epoch, 0)>>])
           ELSE /\ writes' = writes
                /\ Set(p, [pr EXCEPT !.pc = "sched",
                                     !.trace = Append(@, Event("compare", pr.epoch, 0))])
        /\ UNCHANGED <<cfg, data, out_dir, probe>>

(***************************************************************************)
(* train_sam, line 131: the scheduler is stepped, ending the epoch.        *)
(***************************************************************************)
SchedulerStepParams(p) ==
    LET pr == procs[p]
    IN  /\ pr.pc = "sched"
        /\ Set(p, [pr EXCEPT !.pc = "epoch_head",
                             !.params = @ + 1,
                             !.scheduler = scheduler_step(cfg.opt, @),
                             !.trace = Append(@, Event("scheduler", pr.epoch, 0))])
        /\ UNCHANGED <<cfg, data, writes, out_dir, probe>>

SchedulerStep(p) ==
    LET pr == procs[p]
    IN  /\ pr.pc = "sched"
        /\ Set(p, [pr EXCEPT !.pc = "epoch_head",
                             !.scheduler = scheduler_step(cfg.opt, @),
                             !.trace = Append(@, Event("scheduler", pr.epoch, 0))])
        /\ UNCHANGED <<cfg, data, writes, out_dir, probe>>

Next ==
    \/ \E p \in Procs : RunSetup(p)
    \/ \E p \in Procs : EpochHead(p)
    \/ \E p \in Procs : TrainForward(p)
    \/ \E p \in Procs : TrainStep(p)
    \/ \E p \in Procs : TrainEpochEnd(p)
    \/ \E p \in Procs : ValidateBatch(p)
    \/ \E p \in Procs : ValidateFinish(p)
    \/ \E p \in Procs : BestCheck(p)
    \/ \E p \in Procs : SchedulerStep(p)

(***************************************************************************)
(* Spec: one process (num_devices = 1).  SpecDist: the replicated run.     *)
(***************************************************************************)
Spec == Init /\ [][Next]_vars

SpecDist == InitDist /\ [][Next]_vars

(***************************************************************************)
(* SpecSched: the training run of one process over every schedule          *)
(* configuration with ascending steps, with two training batches per       *)
(* epoch, so that an epoch makes more than one optimizer step.             *)
(***************************************************************************)
InitSched ==
    /\ cfg \in [num_epochs : 0..MaxEpochs, num_devices : {1}, opt : AscendingOpts]
    /\ data \in [train : {<<1, 1>>}, val : {<<1>>},
                 loss : {{Loss(1, 0, 2)}}, images : {{Perfect}},
                 score_bits : TensorScoreBits]
    /\ procs = [p \in Procs |-> ProcInit]
    /\ writes = {}
    /\ out_dir = {}
    /\ probe = NoProbe

SpecSched == InitSched /\ [][Next]_vars

(***************************************************************************)
(* SpecVal: the run of one process over validation loaders whose batches   *)
(* have unequal image counts, every image having any of the outcomes.      *)
(***************************************************************************)
InitVal ==
    /\ cfg \in [num_epochs : {0, 2}, num_devices : {1}, opt : RunOpts]
    /\ data \in [train : {<<1>>}, val : {<<1>>, <<2, 1>>, <<1, 2>>},
                 loss : {{Loss(1, 0, 2)}}, images : {ImageOutcomes},
                 score_bits : ScoreBits]
    /\ procs = [p \in Procs |-> ProcInit]
    /\ writes = {}
    /\ out_dir = {}
    /\ probe = NoProbe

SpecVal == InitVal /\ [][Next]_vars

(***************************************************************************)
(* SpecFail: the run of one process in which a forward pass, a backward    *)
(* pass, a metric computation or a checkpoint write can raise.  train.py   *)
(* has no handler, so the exception leaves train_sam or validate and run:  *)
(* the process stops where it is (pc = "failed").  A write that raises     *)
(* leaves no checkpoint.                                                   *)
(***************************************************************************)
Fail(pr, tag, label) ==
    [pr EXCEPT !.pc = "failed", !.trace = Append(@, Event(tag, label, 0))]

(* line 93: the forward pass of a training batch raises; or it returns,    *)
(* lines 95-97 reset the accumulators, and a loss raises on image k of the *)
(* batch: focal_loss (line 100), dice_loss (line 101) after the image's    *)
(* focal term was added, calc_iou or mse_loss (lines 102-103) after its    *)
(* dice term was added.  The accumulators then hold the terms added so     *)
(* far: any part of the batch's amounts, nothing of a term before its      *)
(* first addition and the whole amount after its last.                     *)
LossStages == {"focal", "dice", "iou"}

Accumulated(l, batch_size, k, stage) ==
    {a \in [focal : 0..l.focal, dice : 0..l.dice, iou : 0..l.iou] :
        /\ (k = 1 /\ stage = "focal") => a.focal = 0
        /\ (k = 1 /\ stage # "iou") => a.dice = 0
        /\ k = 1 => a.iou = 0
        /\ (k = batch_size /\ stage # "focal") => a.focal = l.focal
        /\ (k = batch_size /\ stage = "iou") => a.dice = l.dice}

FailForward(p) ==
    LET pr == procs[p]
        batch_size == data.train[pr.batch_iter + 1]
    IN  /\ pr.pc = "batch_head"
        /\ ~Exhausted(pr.batch_iter, data.train)
        /\ \/ Set(p, Fail(pr, "fail_forward", pr.epoch))
           \/ \E l \in data.loss, k \in 1..batch_size, stage \in LossStages :
                \E a \in Accumulated(l, batch_size, k, stage) :
                    Set(p, Fail([pr EXCEPT
                        !.fwd = @ \cup {<<"train", pr.training>>},
                        !.loss = [focal |-> a.focal, dice |-> a.dice, iou |-> a.iou,
                                  total |-> pr.loss.total]],
                        "fail_forward", pr.epoch))
        /\ UNCHANGED <<cfg, data, writes, out_dir, probe>>

(* lines 107-108: the backward pass raises, before optimizer.step.         *)
FailBackward(p) ==
    /\ procs[p].pc = "backward"
    /\ Set(p, Fail(procs[p], "fail_backward", procs[p].epoch))
    /\ UNCHANGED <<cfg, data, writes, out_dir, probe>>

(* line 37: the forward pass of a validation batch raises; or it returns   *)
(* and a metric (lines 39-46) raises on image k of the batch, after the    *)
(* images before it have updated both trackers (lines 47-48).              *)
FailValidateSkipped(p) ==
    /\ procs[p].pc = "val_loop"
    /\ procs[p].val.n < Len(data.val)
    /\ Set(p, [procs[p] EXCEPT !.val.n = @ + 1,
                               !.trace = Append(@, Event("fail_validate",
                                                         procs[p].val.epoch, 0))])
    /\ UNCHANGED <<cfg, data, writes, out_dir, probe>>

FailValidate(p) ==
    LET pr == procs[p]
        num_images == data.val[pr.val.n + 1]
    IN  /\ pr.pc = "val_loop"
        /\ pr.val.n < Len(data.val)
        /\ \/ Set(p, Fail(pr, "fail_validate", pr.val.epoch))
           \/ \E k \in 1..num_images : \E images \in [1..(k - 1) -> data.images] :
                Set(p, Fail([pr EXCEPT
                    !.fwd = @ \cup {<<"validate", pr.training>>},
                    !.val.seen = @ \cup {pr.params},
                    !.val.f1s = @ \o [i \in 1..(k - 1) |-> f1_score(images[i])],
                    !.val.iou_values = @ \o [i \in 1..(k - 1) |-> iou_score(images[i])],
                    !.val.weights = @ \o [i \in 1..(k - 1) |-> num_images],
                    !.val.ious =
                        UpdateAll(@, [i \in 1..(k - 1) |-> iou_score(images[i])], num_images),
                    !.val.f1_scores =
                        UpdateAll(@, [i \in 1..(k - 1) |-> f1_score(images[i])], num_images)],
                    "fail_validate", pr.val.epoch))
        /\ UNCHANGED <<cfg, data, writes, out_dir, probe>>

(* line 57: torch.save of the periodic checkpoint raises, on rank 0.       *)
FailSave(p) ==
    /\ procs[p].pc = "val_loop"
    /\ procs[p].val.n = Len(data.val)
    /\ IsCoordinator(p)
    /\ Set(p, Fail(procs[p], "fail_save", procs[p].val.epoch))
    /\ UNCHANGED <<cfg, data, writes, out_dir, probe>>

(* line 128: torch.save of the best checkpoint raises, after line 126 has  *)
(* assigned best_score.                                                    *)
FailBestSave(p) ==
    /\ procs[p].pc = "compare"
    /\ Improved(procs[p].score, procs[p].best_score)
    /\ Set(p, Fail([procs[p] EXCEPT !.best_score = procs[p].score,
                                    !.trace = Append(@, Event("compare", procs[p].epoch, 0))],
                   "fail_best", procs[p].epoch))
    /\ UNCHANGED <<cfg, data, writes, out_dir, probe>>

InitFail ==
    /\ cfg \in [num_epochs : {0, 2, 3}, num_devices : {1}, opt : RunOpts]
    /\ data \in [train : {<<1>>, <<1, 1>>, <<2>>}, val : {<<1>>, <<2, 1>>},
                 loss : {{Loss(2, 1, 1)}}, images : {{Perfect, Disjoint}},
                 score_bits : ScoreBits]
    /\ procs = [p \in Procs |-> ProcInit]
    /\ writes = {}
    /\ out_dir = {}
    /\ probe = NoProbe

NextFail ==
    \/ \E p \in Procs : RunSetup(p)
    \/ \E p \in Procs : EpochHead(p)
    \/ \E p \in Procs : TrainForward(p)
    \/ \E p \in Procs : TrainStep(p)
    \/ \E p \in Procs : TrainEpochEnd(p)
    \/ \E p \in Procs : ValidateBatch(p)
    \/ \E p \in Procs : ValidateFinish(p)
    \/ \E p \in Procs : BestCheck(p)
    \/ \E p \in Procs : SchedulerStep(p)
    \/ \E p \in Procs : FailForward(p)
    \/ \E p \in Procs : FailBackward(p)
    \/ \E p \in Procs : FailValidate(p)
    \/ \E p \in Procs : FailSave(p)
    \/ \E p \in Procs : FailBestSave(p)

SpecFail == InitFail /\ [][NextFail]_vars

(***************************************************************************)
(* SpecLr: the scheduler alone, over every schedule configuration with     *)
(* ascending steps and a nonzero decay factor, stepped MaxStep times.      *)
(***************************************************************************)
InitLr ==
    /\ cfg \in [num_epochs : {0}, num_devices : {1}, opt : AscendingOpts]
    /\ data = [train |-> <<>>, val |-> <<>>, loss |-> LossOutcomes,
            images |-> ImageOutcomes, score_bits |-> 24]
    /\ procs = [p \in Procs |-> ProcInit]
    /\ writes = {}
    /\ out_dir = {}
    /\ probe = [kind |-> "scheduler", scheduler |-> LambdaLR(cfg.opt)]

LrProbe ==
    /\ probe.kind = "scheduler"
    /\ probe.scheduler.last_epoch < MaxStep
    /\ probe' = [probe EXCEPT !.scheduler = scheduler_step(cfg.opt, @)]
    /\ UNCHANGED <<cfg, data, procs, writes, out_dir>>

NextLr == LrProbe

SpecLr == InitLr /\ [][NextLr]_vars

(***************************************************************************)
(* SpecMeter: one tracker, updated up to MaxUpdates times with values and  *)
(* positive weights; the updates made so far are recorded beside it.       *)
(***************************************************************************)
MeterValues == {<<-1, 1>>, <<0, 1>>, <<1, 2>>, <<2, 1>>}

MaxWeight == 2

InitMeter ==
    /\ cfg = [num_epochs |-> 0, num_devices |-> 1, opt |-> Opt(1, 2, 3, 10)]
    /\ data = [train |-> <<>>, val |-> <<>>, loss |-> LossOutcomes,
            images |-> ImageOutcomes, score_bits |-> 24]
    /\ procs = [p \in Procs |-> ProcInit]
    /\ writes = {}
    /\ out_dir = {}
    /\ probe = [kind |-> "meter", meter |-> AverageMeter, values |-> <<>>, weights |-> <<>>]

MeterProbe ==
    /\ probe.kind = "meter"
    /\ Len(probe.values) < MaxUpdates
    /\ \E v \in MeterValues, w \in 1..MaxWeight :
         probe' = [probe EXCEPT !.meter = MeterUpdate(@, v, w),
                                !.values = Append(@, v),
                                !.weights = Append(@, w)]
    /\ UNCHANGED <<cfg, data, procs, writes, out_dir>>

NextMeter == MeterProbe

SpecMeter == InitMeter /\ [][NextMeter]_vars

(***************************************************************************)
(* Reading a process's history.                                            *)
(***************************************************************************)
Trace(p) == procs[p].trace

At(p, tag, label) == {i \in DOMAIN Trace(p) : Trace(p)[i][1] = tag /\ Trace(p)[i][2] = label}

Tagged(p, tag) == {i \in DOMAIN Trace(p) : Trace(p)[i][1] = tag}

Happened(p, tag, label) == At(p, tag, label) # {}

HappenedBefore(p, tag, label, i) == \E j \in At(p, tag, label) : j < i

BestWritten(p, e) == \E w \in writes : w.kind = "best" /\ w.rank = p /\ w.epoch = e

PeriodicWritten(p, e) == \E w \in writes : w.kind = "epoch" /\ w.rank = p /\ w.epoch = e

StrictRecord(scores, e) ==
    /\ RLess(Zero, scores[e])
    /\ \A j \in 1..(e - 1) : RLess(scores[j], scores[e])

(***************************************************************************)
(* C1: in train_sam a best-checkpoint file is written at epoch e if and    *)
(* only if the score of epoch e is strictly greater than 0 and than the    *)
(* score of every earlier epoch; before the comparison of an epoch has run *)
(* no best-checkpoint file of that epoch exists.                           *)
(***************************************************************************)
C1_BestIffStrictRecord ==
    \A p \in Procs : \A e \in 1..MaxEpochs :
        IF Happened(p, "compare", e)
        THEN BestWritten(p, e) <=> StrictRecord(procs[p].scores, e)
        ELSE ~BestWritten(p, e)

(* Scores rise, then tie or fall, then rise again: written at the 1st and  *)
(* 3rd epoch and not at the 2nd.                                           *)
C1_Witness ==
    \E p \in Procs :
        /\ Happened(p, "compare", 3)
        /\ RLess(Zero, procs[p].scores[1])
        /\ ~RLess(procs[p].scores[1], procs[p].scores[2])
        /\ RLess(procs[p].scores[1], procs[p].scores[3])
        /\ BestWritten(p, 1) /\ ~BestWritten(p, 2) /\ BestWritten(p, 3)

(***************************************************************************)
(* C2: directory creation and every checkpoint write into the output       *)
(* directory, periodic and best alike, is performed by global rank 0 only. *)
(***************************************************************************)
C2_OnlyCoordinatorWrites ==
    /\ out_dir \subseteq {0}
    /\ \A w \in writes : w.rank = 0

(***************************************************************************)
(* C3: every process runs every batch of the validation loop of each       *)
(* validate call it completes; the periodic checkpoint of a call is        *)
(* written by rank 0 and by no other process, and rank 0 writes it on      *)
(* every validate call that completes, named with the call's epoch label   *)
(* and, for a call made by train_sam, with the mean F1 the call returned.  *)
(***************************************************************************)
C3_PeriodicByRankZero ==
    /\ \A w \in writes : w.kind = "epoch" => w.rank = 0
    /\ \A p \in Procs : \A i \in Tagged(p, "validated") :
         LET label == Trace(p)[i][2]
         IN  /\ Cardinality({j \in At(p, "val_batch", label) : j < i}) = Len(data.val)
             /\ label >= 1 => Len(procs[p].scores) >= label
             /\ (p = 0) => PeriodicWritten(0, label) /\ HappenedBefore(0, "periodic", label, i)
             /\ (p = 0 /\ label >= 1) =>
                    \E w \in writes : /\ w.kind = "epoch" /\ w.epoch = label
                                      /\ w.score = procs[0].scores[label]
                                      /\ w.f1 = Fmt2(procs[0].scores[label], data.score_bits)
             /\ (p # 0) => ~PeriodicWritten(p, label) /\ ~Happened(p, "periodic", label)

(* Two processes have both completed the validate call of epoch 1 over a   *)
(* non-empty loader, and only rank 0 has written its periodic checkpoint.  *)
C3_Witness ==
    /\ cfg.num_devices >= 2
    /\ Len(data.val) >= 1
    /\ Happened(0, "validated", 1) /\ Happened(1, "validated", 1)
    /\ PeriodicWritten(0, 1) /\ ~PeriodicWritten(1, 1)

(***************************************************************************)
(* C4: within every epoch all training batches, each followed at once by   *)
(* its optimizer step, complete before the epoch's validate call; the      *)
(* best-checkpoint comparison follows the return of validate; the          *)
(* scheduler step follows the comparison; and no batch of the next epoch   *)
(* starts before the scheduler step of this one.                           *)
(***************************************************************************)
C4_EpochOrder ==
    \A p \in Procs : \A i \in DOMAIN Trace(p) :
        LET ev == Trace(p)[i]
            e == ev[2]
        IN  /\ ev[1] = "batch" =>
                /\ ~HappenedBefore(p, "validate", e, i)
                /\ i < Len(Trace(p)) => Trace(p)[i + 1] = Event("optimizer", e, ev[3])
                /\ e > 1 => HappenedBefore(p, "scheduler", e - 1, i)
            /\ ev[1] = "optimizer" => i > 1 /\ Trace(p)[i - 1] = Event("batch", e, ev[3])
            /\ (ev[1] = "validate" /\ e >= 1) =>
                /\ {Trace(p)[j][3] : j \in {k \in At(p, "batch", e) : k < i}}
                       = 1..Len(data.train)
                /\ {Trace(p)[j][3] : j \in {k \in At(p, "optimizer", e) : k < i}}
                       = 1..Len(data.train)
                /\ ~HappenedBefore(p, "scheduler", e, i)
            /\ ev[1] = "compare" => HappenedBefore(p, "validated", e, i)
            /\ ev[1] = "best" => Trace(p)[i - 1] = Event("compare", e, 0)
            /\ ev[1] = "scheduler" =>
                /\ HappenedBefore(p, "validated", e, i)
                /\ HappenedBefore(p, "compare", e, i)

(* A second epoch has begun its first batch after an epoch of two batches, *)
(* a validation and a scheduler step.                                      *)
C4_Witness ==
    \E p \in Procs :
        /\ Len(data.train) = 2
        /\ Happened(p, "scheduler", 1)
        /\ Happened(p, "batch", 2)
        /\ procs[p].pc = "backward"

(***************************************************************************)
(* C6: train_sam runs the epochs 1, 2, ..., num_epochs - 1 in ascending    *)
(* order and no other, max(0, num_epochs - 1) of them by the time the run  *)
(* ends; with num_epochs <= 1 there is no training batch, no in-loop       *)
(* validation, no best-checkpoint write and no scheduler step.             *)
(***************************************************************************)
EpochsRun(p) == {Trace(p)[i][2] : i \in Tagged(p, "epoch")}

Max0(n) == IF n < 0 THEN 0 ELSE n

C6_EpochRange ==
    \A p \in Procs :
        /\ \A i \in Tagged(p, "epoch") :
             /\ Trace(p)[i][2] >= 1
             /\ Trace(p)[i][2] > 1 => HappenedBefore(p, "epoch", Trace(p)[i][2] - 1, i)
             /\ ~HappenedBefore(p, "epoch", Trace(p)[i][2], i)
        /\ EpochsRun(p) \subseteq 1..Max0(cfg.num_epochs - 1)
        /\ Happened(p, "validate", 0) => EpochsRun(p) = 1..Max0(cfg.num_epochs - 1)
        /\ \A i \in DOMAIN Trace(p) :
             Trace(p)[i][1] \in {"batch", "optimizer", "compare", "best", "scheduler"}
                \/ (Trace(p)[i][1] \in {"validate", "val_batch", "validated", "periodic"}
                      /\ Trace(p)[i][2] # 0)
             => Trace(p)[i][2] \in 1..(cfg.num_epochs - 1)
        /\ cfg.num_epochs <= 1 =>
             /\ \A i \in DOMAIN Trace(p) :
                  Trace(p)[i][1] \in {"validate", "val_batch", "validated", "periodic"}
                    /\ Trace(p)[i][2] = 0
             /\ \A w \in writes : w.kind # "best"
             /\ procs[p].scheduler.last_epoch = 0
             /\ procs[p].params = 0

(* A run with num_epochs = 3 has ended after exactly the epochs 1 and 2.   *)
C6_Witness ==
    \E p \in Procs :
        /\ cfg.num_epochs = 3
        /\ procs[p].pc = "done"
        /\ EpochsRun(p) = {1, 2}
        /\ Len(data.train) >= 1

(***************************************************************************)
(* C7: after train_sam has finished validate is called exactly once more,  *)
(* with epoch label 0; no epoch, training batch, optimizer step,           *)
(* comparison or scheduler step follows that call, and the scheduler step  *)
(* of the last epoch precedes it.  A run that has ended has called         *)
(* validate exactly once per label in 1..num_epochs-1 and once with 0.     *)
(***************************************************************************)
C7_FinalValidate ==
    \A p \in Procs :
        /\ Cardinality(At(p, "validate", 0)) <= 1
        /\ \A i \in At(p, "validate", 0) :
             /\ \A j \in DOMAIN Trace(p) :
                  j > i => Trace(p)[j][1] \in {"val_batch", "periodic", "validated"}
                           /\ Trace(p)[j][2] = 0
             /\ cfg.num_epochs > 1 => HappenedBefore(p, "scheduler", cfg.num_epochs - 1, i)
             /\ procs[p].params = Max0(cfg.num_epochs - 1) * Len(data.train)
             /\ procs[p].scheduler.last_epoch = Max0(cfg.num_epochs - 1)
        /\ procs[p].pc = "done" =>
             /\ Happened(p, "validated", 0)
             /\ \A i \in Tagged(p, "validate") :
                  Trace(p)[i][2] \in 0..Max0(cfg.num_epochs - 1)
             /\ \A label \in 0..Max0(cfg.num_epochs - 1) :
                  /\ Cardinality(At(p, "validate", label)) = 1
                  /\ Cardinality(At(p, "validated", label)) = 1

(* A run of two epochs with training batches has ended: three validate     *)
(* calls, the last one with label 0.                                       *)
C7_Witness ==
    \E p \in Procs :
        /\ cfg.num_epochs = 3
        /\ Len(data.train) >= 1
        /\ procs[p].pc = "done"
        /\ Trace(p)[Len(Trace(p))] = Event("validated", 0, 0)
        /\ Cardinality(Tagged(p, "validate")) = 3

(***************************************************************************)
(* C8: the scheduler is stepped once per epoch and never per batch: at     *)
(* every epoch boundary the number of scheduler steps made equals the      *)
(* number of completed epochs, inside an epoch it is one less than the     *)
(* epoch's number, whatever the number of batches.                         *)
(***************************************************************************)
InEpoch(p) ==
    \/ procs[p].pc \in {"batch_head", "backward", "compare", "sched"}
    \/ procs[p].pc = "val_loop" /\ procs[p].val.ret = "train_sam"

C8_SchedulerOncePerEpoch ==
    \A p \in Procs :
        /\ procs[p].scheduler.last_epoch = Cardinality(Tagged(p, "scheduler"))
        /\ procs[p].pc = "epoch_head" => procs[p].scheduler.last_epoch = procs[p].epoch
        /\ InEpoch(p) => procs[p].scheduler.last_epoch = procs[p].epoch - 1
        /\ \A e \in 1..MaxEpochs : Cardinality(At(p, "scheduler", e)) <= 1

(* Two epochs of two batches each are complete: four optimizer steps, two  *)
(* scheduler steps.                                                        *)
C8_Witness ==
    \E p \in Procs :
        /\ Len(data.train) = 2
        /\ procs[p].pc = "epoch_head"
        /\ procs[p].epoch = 2
        /\ procs[p].params = 4
        /\ procs[p].scheduler.last_epoch = 2

(***************************************************************************)
(* C9: best_score starts at 0, never decreases, changes only in the        *)
(* comparison of an epoch whose validation score is strictly greater than  *)
(* it (and then becomes that score), and after the comparison of epoch e   *)
(* equals the maximum of 0 and the scores of epochs 1..e.                  *)
(***************************************************************************)
Compared(p) == Cardinality(Tagged(p, "compare"))

C9_BestIsRunningMax ==
    \A p \in Procs :
        procs[p].best_score = RMaxSeq(SubSeq(procs[p].scores, 1, Compared(p)))

C9_BestStep ==
    \A p \in Procs :
        /\ ~RLess(procs'[p].best_score, procs[p].best_score)
        /\ procs'[p].best_score # procs[p].best_score =>
             /\ procs[p].pc = "compare"
             /\ RLess(procs[p].best_score, procs[p].score)
             /\ procs'[p].best_score = procs[p].score

C9_BestScoreMonotone == [](C9_BestIsRunningMax) /\ [][C9_BestStep]_vars

(* After three epochs: a record, then a lower score that leaves best_score *)
(* alone, then a new record.                                               *)
C9_Witness ==
    \E p \in Procs :
        /\ Compared(p) = 3
        /\ RLess(Zero, procs[p].scores[1])
        /\ RLess(procs[p].scores[2], procs[p].scores[1])
        /\ RLess(procs[p].scores[1], procs[p].scores[3])
        /\ procs[p].best_score = procs[p].scores[3]

(***************************************************************************)
(* C5 as stated: for every configuration with ascending steps and a        *)
(* nonzero decay factor, with no constraint relating warmup_steps to       *)
(* steps, the multiplier at step warmup_steps is 1, at steps[0] it is      *)
(* 1/decay_factor and at steps[1] it is 1/decay_factor^2.                  *)
(***************************************************************************)
StageValues ==
    LET o == cfg.opt
        sch == probe.scheduler
    IN  /\ sch.last_epoch = o.warmup_steps => sch.factor = One
        /\ sch.last_epoch = o.steps[1] => sch.factor = Rat(1, o.decay_factor)
        /\ sch.last_epoch = o.steps[2] =>
               sch.factor = Rat(1, o.decay_factor * o.decay_factor)

C5_StageValuesAnyWarmup == probe.kind = "scheduler" => StageValues

(***************************************************************************)
(* C5, amended: the same three values, for the configurations whose        *)
(* warmup ends before the first decay boundary (warmup_steps < steps[0]).  *)
(***************************************************************************)
C5_StageValues ==
    (probe.kind = "scheduler" /\ cfg.opt.warmup_steps < cfg.opt.steps[1]) => StageValues

(* The scheduler has reached the second boundary of a schedule with a      *)
(* warmup, both boundaries after it, and a decay factor other than 1.      *)
C5_Witness ==
    /\ probe.kind = "scheduler"
    /\ cfg.opt.warmup_steps >= 1
    /\ cfg.opt.warmup_steps < cfg.opt.steps[1]
    /\ cfg.opt.decay_factor = 2
    /\ probe.scheduler.last_epoch = cfg.opt.steps[2]
    /\ probe.scheduler.factor = <<1, 4>>

(***************************************************************************)
(* C10: after updates with values v1..vn and positive weights w1..wn,      *)
(* n >= 1, the tracker's average is sum(vi*wi)/sum(wi) and its last value  *)
(* is vn.                                                                  *)
(***************************************************************************)
RECURSIVE SumInt(_)
SumInt(s) == IF s = <<>> THEN 0 ELSE s[1] + SumInt(Tail(s))

WeightedMean(values, weights) ==
    RDiv(RSum([i \in DOMAIN values |-> RMul(values[i], RInt(weights[i]))]),
         RInt(SumInt(weights)))

C10_WeightedAverage ==
    (probe.kind = "meter" /\ probe.values # <<>>) =>
        /\ probe.meter.avg = WeightedMean(probe.values, probe.weights)
        /\ probe.meter.val = probe.values[Len(probe.values)]

(* Three updates with different values and unequal weights.                *)
C10_Witness ==
    /\ probe.kind = "meter"
    /\ probe.values = <<<<2, 1>>, <<1, 2>>, <<-1, 1>>>>
    /\ probe.weights = <<1, 2, 1>>
    /\ probe.meter.avg = <<1, 2>>

(***************************************************************************)
(* SpecLoss: the loss of one training batch, train_sam lines 93-105.  A    *)
(* batch is the sequence of its images; an image has its number of         *)
(* predicted masks, the unnormalized focal and dice terms of its masks and *)
(* the summed squared error of its IoU predictions.                        *)
(***************************************************************************)
MaxImages == 2
MaxMasks == 2

BatchImages == [masks : 1..MaxMasks, focal : {1, 2}, dice : {1}, mse : {0, 3}]

Batches == UNION {[1..n -> BatchImages] : n \in 1..MaxImages}

(* losses.FocalLoss, losses.DiceLoss: a scalar normalized by the count     *)
(* passed as third argument.                                               *)
focal_loss(image, normalizer) == Rat(image.focal, normalizer)

dice_loss(image, normalizer) == Rat(image.dice, normalizer)

(* F.mse_loss(iou_prediction, batch_iou, reduction='sum'), line 103.       *)
mse_loss_sum(image) == RInt(image.mse)

(* Line 94: num_masks = sum(len(pred_mask) for pred_mask in pred_masks).   *)
NumMasks(batch) == SumInt([i \in DOMAIN batch |-> batch[i].masks])

(* Lines 100-103: the count handed to the kernels and dividing the IoU     *)
(* term of an image is num_masks.                                          *)
NormalizerPerImage(num_masks, image) == image.masks

Normalizer(num_masks, image) == num_masks

InitLoss ==
    /\ cfg = [num_epochs |-> 0, num_devices |-> 1, opt |-> Opt(1, 2, 3, 10)]
    /\ data = [train |-> <<>>, val |-> <<>>, loss |-> LossOutcomes,
            images |-> ImageOutcomes, score_bits |-> 24]
    /\ procs = [p \in Procs |-> ProcInit]
    /\ writes = {}
    /\ out_dir = {}
    /\ \E b \in Batches :
         probe = [kind |-> "loss", pc |-> "forward", batch |-> b, i |-> 0, num_masks |-> 0,
                  loss_focal |-> Zero, loss_dice |-> Zero, loss_iou |-> Zero,
                  loss_total |-> Zero, calls |-> <<>>]

(* Lines 93-97. *)
LossForward ==
    /\ probe.kind = "loss" /\ probe.pc = "forward"
    /\ probe' = [probe EXCEPT !.pc = "images",
                              !.num_masks = NumMasks(probe.batch),
                              !.loss_focal = Zero, !.loss_dice = Zero, !.loss_iou = Zero]
    /\ UNCHANGED <<cfg, data, procs, writes, out_dir>>

(* Lines 99-103: one image of the batch. *)
LossImage ==
    /\ probe.kind = "loss" /\ probe.pc = "images"
    /\ probe.i < Len(probe.batch)
    /\ LET image == probe.batch[probe.i + 1]
           n == Normalizer(probe.num_masks, image)
       IN  probe' = [probe EXCEPT
               !.i = @ + 1,
               !.loss_focal = RAdd(@, focal_loss(image, n)),
               !.loss_dice = RAdd(@, dice_loss(image, n)),
               !.loss_iou = RAdd(@, RDiv(mse_loss_sum(image), RInt(n))),
               !.calls = @ \o <<<<"focal", probe.i + 1, n>>, <<"dice", probe.i + 1, n>>,
                                <<"iou", probe.i + 1, n>>>>]
    /\ UNCHANGED <<cfg, data, procs, writes, out_dir>>

(* Line 105. *)
LossTotal ==
    /\ probe.kind = "loss" /\ probe.pc = "images"
    /\ probe.i = Len(probe.batch)
    /\ probe' = [probe EXCEPT
           !.pc = "done",
           !.loss_total = RAdd(RAdd(probe.loss_focal, probe.loss_dice), probe.loss_iou)]
    /\ UNCHANGED <<cfg, data, procs, writes, out_dir>>

NextLoss == LossForward \/ LossImage \/ LossTotal

SpecLoss == InitLoss /\ [][NextLoss]_vars

(***************************************************************************)
(* C11: in a training batch num_masks is the sum of the images' mask       *)
(* counts; that one value is the normalizer of every focal and dice call   *)
(* and the divisor of every IoU-regression term of the batch, one of each  *)
(* per image, so that loss_iou is the batch's summed error over num_masks. *)
(***************************************************************************)
C11_SharedNormalizer ==
    (probe.kind = "loss" /\ probe.pc # "forward") =>
        LET b == probe.batch
            total == SumInt([i \in DOMAIN b |-> b[i].masks])
        IN  /\ probe.num_masks = total
            /\ Len(probe.calls) = 3 * probe.i
            /\ \A k \in DOMAIN probe.calls : probe.calls[k][3] = total
            /\ \A i \in 1..probe.i : \A kernel \in {"focal", "dice", "iou"} :
                 \E k \in DOMAIN probe.calls :
                     probe.calls[k][1] = kernel /\ probe.calls[k][2] = i
            /\ probe.pc = "done" =>
                 /\ probe.i = Len(b)
                 /\ probe.loss_iou = Rat(SumInt([i \in DOMAIN b |-> b[i].mse]), total)

(* A batch of two images with 1 and 2 masks: every call used 3.            *)
C11_Witness ==
    /\ probe.kind = "loss" /\ probe.pc = "done"
    /\ Len(probe.batch) = 2
    /\ probe.batch[1].masks = 1 /\ probe.batch[2].masks = 2
    /\ probe.batch[1].mse = 3 /\ probe.batch[2].mse = 3
    /\ \A k \in DOMAIN probe.calls : probe.calls[k][3] = 3
    /\ probe.loss_iou = <<2, 1>>

(***************************************************************************)
(* C12: validate puts the model in evaluation mode before its first        *)
(* forward pass and in training mode before it returns: every forward pass *)
(* of a training batch runs in training mode, every forward pass inside    *)
(* validate in evaluation mode, and outside validate the model is in       *)
(* training mode.                                                          *)
(***************************************************************************)
C12_Modes ==
    \A p \in Procs :
        /\ procs[p].fwd \subseteq {<<"train", TRUE>>, <<"validate", FALSE>>}
        /\ procs[p].pc = "val_loop" => ~procs[p].training
        /\ procs[p].pc # "val_loop" => procs[p].training

(* A training batch of the second epoch has run its forward pass, after    *)
(* the validation of the first epoch ran one.                              *)
C12_Witness ==
    \E p \in Procs :
        /\ procs[p].fwd = {<<"train", TRUE>>, <<"validate", FALSE>>}
        /\ Happened(p, "val_batch", 1)
        /\ Happened(p, "batch", 2)
        /\ procs[p].pc = "backward"

(***************************************************************************)
(* C13: the parameters change only in an optimizer step; validate, the     *)
(* checkpoint writes and the scheduler step leave them alone.  Every       *)
(* checkpoint of epoch e, periodic or best, holds the state produced by    *)
(* the last optimizer step of epoch e, and every forward pass of the       *)
(* epoch's validate call runs on that state.                               *)
(***************************************************************************)
StateAfter(label) ==
    (IF label = 0 THEN Max0(cfg.num_epochs - 1) ELSE label) * Len(data.train)

C13_CheckpointState ==
    /\ \A w \in writes : w.state = StateAfter(w.epoch)
    /\ \A w1 \in writes : \A w2 \in writes :
         (w1.rank = w2.rank /\ w1.epoch = w2.epoch) => w1.state = w2.state
    /\ \A p \in Procs :
         procs[p].pc = "val_loop" =>
             /\ procs[p].val.seen \subseteq {procs[p].params}
             /\ procs[p].params = StateAfter(procs[p].val.epoch)

C13_ParamsStep ==
    \A p \in Procs :
        procs'[p].params # procs[p].params =>
            /\ procs[p].pc = "backward"
            /\ procs'[p].pc = "batch_head"
            /\ procs'[p].params = procs[p].params + 1
            /\ Len(procs'[p].trace) = Len(procs[p].trace) + 1
            /\ procs'[p].trace[Len(procs'[p].trace)][1] = "optimizer"

C13_ParamsOnlyInOptimizer == [](C13_CheckpointState) /\ [][C13_ParamsStep]_vars

(* Epoch 2 of a run with two batches per epoch has written its periodic    *)
(* and its best checkpoint, both with the state after four optimizer steps.*)
C13_Witness ==
    \E p \in Procs :
        /\ Len(data.train) = 2
        /\ \E w1 \in writes : \E w2 \in writes :
             /\ w1.kind = "epoch" /\ w2.kind = "best"
             /\ w1.rank = p /\ w2.rank = p
             /\ w1.epoch = 2 /\ w2.epoch = 2
             /\ w1.state = 4 /\ w2.state = 4

(***************************************************************************)
(* C15: within one run a process writes at most one periodic checkpoint    *)
(* per epoch label (1..num_epochs-1 from the loop, 0 from the final        *)
(* validation) and at most one best checkpoint per epoch label, so no two  *)
(* of its writes have the same file name.                                  *)
(***************************************************************************)
C15_NoOverwrite ==
    \A p \in Procs :
        /\ \A i \in DOMAIN procs[p].saved : \A j \in DOMAIN procs[p].saved :
             i < j =>
                 /\ procs[p].saved[i] # procs[p].saved[j]
                 /\ procs[p].saved[i][1] = procs[p].saved[j][1]
                      => procs[p].saved[i][2] # procs[p].saved[j][2]
        /\ \A i \in DOMAIN procs[p].saved :
             /\ procs[p].saved[i][1] = "epoch" =>
                    procs[p].saved[i][2] \in 0..Max0(cfg.num_epochs - 1)
             /\ procs[p].saved[i][1] = "best" =>
                    procs[p].saved[i][2] \in 1..Max0(cfg.num_epochs - 1)
        /\ \A label \in 0..MaxEpochs :
             /\ Cardinality(At(p, "periodic", label)) <= 1
             /\ Cardinality(At(p, "best", label)) <= 1

(* A finished run of three epochs: the periodic checkpoints 1, 2, 3 and 0, *)
(* and two best checkpoints.                                               *)
C15_Witness ==
    \E p \in Procs :
        /\ procs[p].pc = "done"
        /\ cfg.num_epochs = 4
        /\ {procs[p].saved[i][2] : i \in {k \in DOMAIN procs[p].saved :
                                             procs[p].saved[k][1] = "epoch"}} = 0..3
        /\ Cardinality({k \in DOMAIN procs[p].saved : procs[p].saved[k][1] = "best"}) = 2

(***************************************************************************)
(* C14 as stated: every optimizer step of epoch e uses the multiplier      *)
(* factor(e - 1); whenever warmup_steps >= 1, every optimizer step of the  *)
(* first epoch uses multiplier 0 and the multiplier first equals 1 during  *)
(* epoch warmup_steps + 1, whatever the decay boundaries are.              *)
(***************************************************************************)
UsesFactorOfEpoch(p) ==
    /\ \A u \in procs[p].lr_used :
         /\ u[2] = lr_lambda(cfg.opt, u[1] - 1)
         /\ (cfg.opt.warmup_steps >= 1 /\ u[1] = 1) => u[2] = Zero
    /\ procs[p].pc = "backward" => procs[p].scheduler.last_epoch = procs[p].epoch - 1

FirstFullRate(p) ==
    \A u \in procs[p].lr_used :
        /\ u[2] = One => u[1] >= cfg.opt.warmup_steps + 1
        /\ u[1] = cfg.opt.warmup_steps + 1 => u[2] = One

C14_FactorPerEpochAnySteps ==
    \A p \in Procs :
        /\ UsesFactorOfEpoch(p)
        /\ cfg.opt.warmup_steps >= 1 => FirstFullRate(p)

(***************************************************************************)
(* C14, amended: every optimizer step of epoch e uses factor(e - 1), with  *)
(* warmup_steps >= 1 the whole first epoch uses multiplier 0, and when the *)
(* warmup ends before the first decay boundary (warmup_steps < steps[0])   *)
(* the multiplier first equals 1 during epoch warmup_steps + 1.            *)
(***************************************************************************)
C14_FactorPerEpoch ==
    \A p \in Procs :
        /\ UsesFactorOfEpoch(p)
        /\ (cfg.opt.warmup_steps >= 1 /\ cfg.opt.warmup_steps < cfg.opt.steps[1])
               => FirstFullRate(p)

(* A warmup of one epoch before the first boundary at step 2: both         *)
(* optimizer steps of epoch 1 used multiplier 0, epoch 2 used 1 and        *)
(* epoch 3 the first decayed value.                                        *)
C14_Witness ==
    \E p \in Procs :
        /\ cfg.opt = Opt(1, 2, 3, 2)
        /\ Cardinality(At(p, "optimizer", 1)) = 2
        /\ procs[p].lr_used = {<<1, Zero>>, <<2, One>>, <<3, <<1, 2>>>>}

(***************************************************************************)
(* C16: in a validate call that has seen at least one image, the trackers  *)
(* hold the average in which every image's F1 (and IoU) enters once with   *)
(* the image count of its batch as weight, over the batches of this call   *)
(* only: the trackers start fresh in every call.  If every image's value   *)
(* is 1 the average is exactly 1.  That average is what the call returns   *)
(* and what the periodic checkpoint's name carries.                        *)
(***************************************************************************)
BatchWeights(loader, n) ==
    LET RECURSIVE W(_)
        W(b) == IF b > n THEN <<>> ELSE [i \in 1..loader[b] |-> loader[b]] \o W(b + 1)
    IN  W(1)

C16_TrackerAverage ==
    \A p \in Procs :
        LET v == procs[p].val
        IN  procs[p].pc = "val_loop" =>
              /\ v.weights = BatchWeights(data.val, v.n)
              /\ Len(v.f1s) = Len(v.weights)
              /\ Len(v.iou_values) = Len(v.weights)
              /\ v.n = 0 => (v.f1_scores = AverageMeter /\ v.ious = AverageMeter)
              /\ v.n > 0 =>
                   /\ v.f1_scores.avg = WeightedMean(v.f1s, v.weights)
                   /\ v.ious.avg = WeightedMean(v.iou_values, v.weights)
                   /\ (\A i \in DOMAIN v.f1s : v.f1s[i] = One) => v.f1_scores.avg = One
                   /\ (\A i \in DOMAIN v.iou_values : v.iou_values[i] = One)
                          => v.ious.avg = One

C16_Returned ==
    \A p \in Procs :
        LET v == procs[p].val
        IN  (procs[p].pc = "val_loop" /\ procs'[p].pc # "val_loop" /\ v.n > 0) =>
              /\ procs'[p].pc = "compare" =>
                     /\ procs'[p].score = WeightedMean(v.f1s, v.weights)
                     /\ procs'[p].scores = Append(procs[p].scores, procs'[p].score)
              /\ \E w \in writes' :
                     /\ w.kind = "epoch" /\ w.rank = p /\ w.epoch = v.epoch
                     /\ w.score = WeightedMean(v.f1s, v.weights)

C16_ValidateMean == [](C16_TrackerAverage) /\ [][C16_Returned]_vars

(* The second validate call of a run, over a batch of two images and a     *)
(* batch of one: F1 values 1, 0, 1 with weights 2, 2, 1 average to 3/5,    *)
(* whatever the first call saw.                                            *)
C16_Witness ==
    \E p \in Procs :
        /\ procs[p].pc = "val_loop"
        /\ procs[p].val.epoch = 0
        /\ Len(procs[p].scores) = 1
        /\ procs[p].scores[1] = Zero
        /\ data.val = <<2, 1>>
        /\ procs[p].val.f1s = <<One, Zero, One>>
        /\ procs[p].val.weights = <<2, 2, 1>>
        /\ procs[p].val.f1_scores.avg = <<3, 5>>

(***************************************************************************)
(* C17: a failure in a forward pass, a backward pass, a metric computation *)
(* or a checkpoint write is never caught or retried: it is the last thing  *)
(* the process does, no training batch, optimizer step, validation,        *)
(* checkpoint write or scheduler step follows it.  After a failure inside  *)
(* validate at epoch e the process has written neither the periodic nor    *)
(* the best checkpoint of e, and best_score is still the best of the       *)
(* scores returned before.                                                 *)
(***************************************************************************)
FailureTags == {"fail_forward", "fail_backward", "fail_validate", "fail_save", "fail_best"}

Failures(p) == {i \in DOMAIN Trace(p) : Trace(p)[i][1] \in FailureTags}

C17_FailureIsLast ==
    \A p \in Procs :
        /\ Failures(p) \subseteq {Len(Trace(p))}
        /\ procs[p].pc = "failed" <=> Failures(p) # {}
        /\ \A i \in Failures(p) :
             Trace(p)[i][1] \in {"fail_validate", "fail_save"} =>
                 /\ ~PeriodicWritten(p, Trace(p)[i][2])
                 /\ ~BestWritten(p, Trace(p)[i][2])
                 /\ ~Happened(p, "validated", Trace(p)[i][2])
                 /\ ~Happened(p, "compare", Trace(p)[i][2])
                 /\ Len(procs[p].scores) = Cardinality(Tagged(p, "validated"))
                 /\ procs[p].best_score = RMaxSeq(<<Zero>> \o procs[p].scores)

C17_FailureStep ==
    \A p \in Procs :
        /\ procs[p].pc = "failed" =>
               /\ procs'[p] = procs[p]
               /\ {w \in writes' : w.rank = p} = {w \in writes : w.rank = p}
        /\ (procs[p].pc = "val_loop" /\ procs'[p].pc = "failed") =>
               /\ procs'[p].best_score = procs[p].best_score
               /\ procs'[p].params = procs[p].params
               /\ procs'[p].scores = procs[p].scores
               /\ writes' = writes

C17_FailureTerminates == [](C17_FailureIsLast) /\ [][C17_FailureStep]_vars

(* The second validation batch of epoch 2 failed, after epoch 1 had        *)
(* written both its checkpoints: epoch 2 has none and best_score is still  *)
(* the score of epoch 1.                                                   *)
C17_Witness ==
    \E p \in Procs :
        /\ procs[p].pc = "failed"
        /\ Trace(p)[Len(Trace(p))] = Event("fail_validate", 2, 0)
        /\ Happened(p, "val_batch", 2)
        /\ PeriodicWritten(p, 1) /\ BestWritten(p, 1)
        /\ ~PeriodicWritten(p, 2) /\ ~BestWritten(p, 2)
        /\ procs[p].best_score = procs[p].scores[1]
        /\ RLess(Zero, procs[p].best_score)

====
